---- MODULE Spec2Model ----
(***************************************************************************)
(* Multi-source service aggregation and reconciliation of refugee_assist.  *)
(*                                                                         *)
(* The model covers the services table with its constraints, the client   *)
(* side aggregate searchServices (src/lib/languages.ts) with its own       *)
(* retryFetch loop, and the two edge functions it calls: osm-lookup        *)
(* (replace-by-country) and google-places (upsert by google_place_id).     *)
(* Two specifications share the variables:                                 *)
(*   Spec       one client running searchServices, repeatedly;            *)
(*   StoreSpec  refreshes, upserts and manual edits interleaved.           *)
(***************************************************************************)
EXTENDS Integers, Sequences, FiniteSets, TLC

\* ------------------------------------------------------------------------
\* Bounds of the model
\* ------------------------------------------------------------------------
MaxManual == 5
MaxOsm == 3
MaxPlaces == 4
MaxOps == 3
MaxFaults == 1

\* Program constants
Retries == 3
TopN == 5
batchSize == 10

Null == "null"
\* A null osm_id; a present one is the pair of `${element.type}/${element.id}`.
NullId == <<>>
\* The outcome of a call to an outside API: it failed, or it answered data.
Failed == [ok |-> FALSE, data |-> <<>>]
Answer(data) == [ok |-> TRUE, data |-> data]

Countries == {"Jordan", "Kenya"}
Types == {"clinic", "shelter", "legal", "food", "education", "other"}
Users == {"u1", "u2"}
Names == {"a", "b"}

\* The request of the one searchServices client of Spec.
ReqType == "clinic"
ReqCountry == "Jordan"

\* What the Overpass API knows: two nodes, a clinic and an NGO office.
NoTags == [healthcare |-> Null, social_facility |-> Null, amenity |-> Null, office |-> Null]
OsmElements ==
  { [type |-> "node", id |-> "1", tags |-> [NoTags EXCEPT !.healthcare = "clinic"]],
    [type |-> "node", id |-> "2", tags |-> [NoTags EXCEPT !.office = "ngo"]] }

\* What the Places API knows: these places, listed in this order.
PlaceOrder == <<"p1", "p2", "p3", "p4", "p5", "p6", "p7", "p8", "p9", "p10",
               "p11", "p12", "p13">>

Min(a, b) == IF a < b THEN a ELSE b
SeqsUpTo(S, n) == UNION {[1..m -> S] : m \in 0..n}
Take(s, n) == SubSeq(s, 1, Min(n, Len(s)))
Range(s) == {s[i] : i \in 1..Len(s)}

\* ------------------------------------------------------------------------
\* The services table
\* ------------------------------------------------------------------------
\* A row of the table.  id stands for the generated uuid: the pair of the
\* writer that generated it and that writer's serial number, so that two
\* generated ids are never equal.
Row(id, source, country, type, osm, gp, by, name) ==
  [id |-> id, source |-> source, country |-> country, type |-> type,
   osm_id |-> osm, google_place_id |-> gp, created_by |-> by, name |-> name]

\* A CHECK rejects a row only when its expression is false: with a null
\* source every comparison is null, the expression is null or false-or-null,
\* which is null, and the row passes.
check_external_ids(r) ==
  \/ r.source = Null
  \/ (r.source = "OSM" /\ r.osm_id # NullId)
  \/ (r.source = "GooglePlaces" /\ r.google_place_id # Null)
  \/ r.source = "manual"

services_osm_id_key(rows) ==
  \A r1, r2 \in rows :
    (r1.osm_id # NullId /\ r1.osm_id = r2.osm_id) => r1 = r2

services_google_place_id_key(rows) ==
  \A r1, r2 \in rows :
    (r1.google_place_id # Null /\ r1.google_place_id = r2.google_place_id) => r1 = r2

\* The table accepts a set of rows when every constraint holds.
TableAccepts(rows) ==
  /\ \A r \in rows : check_external_ids(r)
  /\ services_osm_id_key(rows)
  /\ services_google_place_id_key(rows)

\* ------------------------------------------------------------------------
\* State
\* ------------------------------------------------------------------------
VARIABLES
  store,        \* the rows of the services table
  nextId,       \* per writer: how many ids it has generated
  faults,       \* how many more store writes may fail for an outside reason
  ops,          \* how many more requests StoreSpec may start
  env,          \* what the sources of the search answer (fixed per run)
  pc,           \* searchServices: "idle", "fanout", "done"
  searches,     \* calls of searchServices started so far
  internalRes,  \* rows the internal query returned
  task,         \* the two provider calls of Promise.allSettled
  settled,      \* the provider calls in the order they completed
  result,       \* what searchServices returned
  prev,         \* the previous call of searchServices, if any
  osm,          \* the running osm-lookup requests
  goog,         \* the running google-places requests
  lastUpsert,   \* the last completed google-places upsert: its batch, whether
                \* the upsert before it had the same batch, and its rows
  call          \* the call observed on its own: a function with its input and
                \* its state or output, or a request with the table it found

vars == <<store, nextId, faults, ops, env, pc, searches, internalRes, task,
          settled, result, prev, osm, goog, lastUpsert, call>>

searchVars == <<pc, searches, internalRes, task, settled, result, prev>>

\* The requests: "c" is the one searchServices makes, the others are made
\* by other callers of the same endpoints (another client's search, a
\* refresh).
OsmProcs == {"c", "r1", "r2"}
GoogProcs == {"c", "g1"}
Writers == {"ui", "api", "osm-c", "osm-r1", "osm-r2", "goog-c", "goog-g1"}
OsmWriter(p) == IF p = "c" THEN "osm-c" ELSE IF p = "r1" THEN "osm-r1" ELSE "osm-r2"
GoogWriter(p) == IF p = "c" THEN "goog-c" ELSE "goog-g1"

\* No call is observed on its own.
NoCall == [fn |-> "none"]

OsmIdle == [pc |-> "idle", country |-> Null, osmServices |-> <<>>, status |-> 0]
GoogIdle == [pc |-> "idle", type |-> Null, formattedPlaces |-> <<>>, i |-> 0, status |-> 0]

\* ------------------------------------------------------------------------
\* osm-lookup: replace-by-country
\* ------------------------------------------------------------------------
mapOsmTypeToServiceType(tags) ==
  IF tags.healthcare = "clinic" \/ tags.healthcare = "doctor" THEN "clinic"
  ELSE IF tags.social_facility = "shelter" THEN "shelter"
  ELSE IF tags.amenity = "social_facility" /\ tags.social_facility = "food_bank" THEN "food"
  ELSE IF tags.amenity = "social_facility" /\ tags.social_facility = "refugee_site" THEN "shelter"
  ELSE IF tags.amenity = "school" \/ tags.amenity = "language_school" THEN "education"
  ELSE IF tags.office = "ngo" \/ tags.amenity = "social_facility" THEN "other"
  ELSE Null

\* One element of the Overpass response as a service record.
OsmService(element, country) ==
  [osm_id |-> <<element.type, element.id>>,
   name |-> "a",
   type |-> IF mapOsmTypeToServiceType(element.tags) # Null
            THEN mapOsmTypeToServiceType(element.tags) ELSE "other",
   source |-> "OSM",
   country |-> country]

\* data.elements.map(...): every element, in order, none removed.
fetchOsmServices(elements, country) ==
  [i \in 1..Len(elements) |-> OsmService(elements[i], country)]

\* Faulty variant of DeleteOsm: the delete without its source filter.
DeleteCountry(rows, country) ==
  {r \in rows : r.country # country}

\* Faulty variant of DeleteOsm: the delete matches no row.
DeleteNothing(rows, country) == rows

\* .delete().eq('source', 'OSM').eq('country', country)
DeleteOsm(rows, country) ==
  {r \in rows : ~(r.source = "OSM" /\ r.country = country)}

\* The rows of .insert(osmServices.map(...)): created_by null, a fresh id each.
OsmInsertRows(services, w, n) ==
  { Row(<<w, n + i>>, services[i].source, services[i].country, services[i].type,
        services[i].osm_id, Null, Null, services[i].name) : i \in 1..Len(services) }

\* Faulty variant of InsertOk: a table without its constraints.
InsertUnchecked(rows, new) == TRUE

\* A bulk insert is one statement: all rows are added, or none when the
\* table rejects the result.
InsertOk(rows, new) == TableAccepts(rows \cup new)

\* A store write fails for an outside reason only while faults remain.
FaultChoices == IF faults > 0 THEN {FALSE, TRUE} ELSE {FALSE}

OsmDone(p, code) == [osm EXCEPT ![p].pc = "done", ![p].status = code]

\* Faulty variant of OsmRequest: the handler goes on to its delete although
\* the Overpass request failed.
OsmRequestIgnoresFailure(p, country, outcome) ==
  /\ osm[p].pc \in {"idle", "done"}
  /\ osm' = [osm EXCEPT ![p] =
              IF country = Null
              THEN [OsmIdle EXCEPT !.pc = "done", !.status = 500, !.country = country]
              ELSE IF ~outcome.ok
              THEN [OsmIdle EXCEPT !.pc = "delete", !.country = country]
              ELSE LET s == fetchOsmServices(outcome.data, country)
                   IN  IF Len(s) > 0
                       THEN [OsmIdle EXCEPT !.pc = "delete", !.country = country,
                                            !.osmServices = s]
                       ELSE [OsmIdle EXCEPT !.pc = "done", !.country = country,
                                            !.status = 200]]

\* The request arrives and the handler runs up to its first store write:
\* a request without a country is refused; outcome is what
\* await fetchOsmServices(country, bbox) met: Failed when the Overpass
\* request failed after its retries, else the elements of the response.
OsmRequest(p, country, outcome) ==
  /\ osm[p].pc \in {"idle", "done"}
  /\ osm' = [osm EXCEPT ![p] =
              IF country = Null \/ ~outcome.ok
              THEN [OsmIdle EXCEPT !.pc = "done", !.status = 500, !.country = country]
              ELSE LET s == fetchOsmServices(outcome.data, country)
                   IN  IF Len(s) > 0
                       THEN [OsmIdle EXCEPT !.pc = "delete", !.country = country,
                                            !.osmServices = s]
                       ELSE [OsmIdle EXCEPT !.pc = "done", !.country = country,
                                            !.status = 200]]

OsmDelete(p) ==
  /\ osm[p].pc = "delete"
  /\ \E fault \in FaultChoices :
       IF fault
       THEN /\ osm' = OsmDone(p, 500)
            /\ faults' = faults - 1
            /\ store' = store
       ELSE /\ osm' = [osm EXCEPT ![p].pc = "insert"]
            /\ store' = DeleteOsm(store, osm[p].country)
            /\ faults' = faults
  /\ UNCHANGED nextId

OsmInsert(p) ==
  /\ osm[p].pc = "insert"
  /\ LET w == OsmWriter(p)
         new == OsmInsertRows(osm[p].osmServices, w, nextId[w])
     IN  \E fault \in FaultChoices :
           /\ faults' = IF fault THEN faults - 1 ELSE faults
           /\ IF fault \/ ~InsertOk(store, new)
              THEN /\ osm' = OsmDone(p, 500)
                   /\ store' = store
                   /\ nextId' = nextId
              ELSE /\ osm' = OsmDone(p, 200)
                   /\ store' = store \cup new
                   /\ nextId' = [nextId EXCEPT ![w] = @ + Len(osm[p].osmServices)]

\* ------------------------------------------------------------------------
\* google-places: upsert by google_place_id
\* ------------------------------------------------------------------------
\* places.map(place => ({...})): the rows to store, type is the requested one.
formatPlaces(places, type) ==
  [i \in 1..Len(places) |->
     [google_place_id |-> places[i].place_id, name |-> places[i].name,
      type |-> type, source |-> "GooglePlaces", country |-> places[i].country]]

\* formattedPlaces.slice(i, i + batchSize), i counted from 0.
Batch(places, i) == SubSeq(places, i + 1, Min(i + batchSize, Len(places)))

\* The columns an upsert sends: on a conflict they overwrite the row, whose
\* id, created_by and osm_id are not among them.
UpsertUpdate(r, rec) ==
  [r EXCEPT !.name = rec.name, !.type = rec.type, !.source = rec.source,
            !.country = rec.country]

\* Faulty variant of UpsertRows: the conflicting rows are deleted and every
\* record of the batch is inserted as a new row.
UpsertReplace(rows, batch, w, n) ==
  {r \in rows : \A i \in 1..Len(batch) : batch[i].google_place_id # r.google_place_id}
    \cup { Row(<<w, n + i>>, batch[i].source, batch[i].country, batch[i].type,
                NullId, batch[i].google_place_id, Null, batch[i].name)
            : i \in 1..Len(batch) }

UpsertRows(rows, batch, w, n) ==
  LET hit(r) == {i \in 1..Len(batch) : batch[i].google_place_id = r.google_place_id}
      kept == {IF hit(r) = {} THEN r ELSE UpsertUpdate(r, batch[CHOOSE i \in hit(r) : TRUE])
               : r \in rows}
      fresh == {i \in 1..Len(batch) :
                  \A r \in rows : r.google_place_id # batch[i].google_place_id}
  IN  kept \cup { Row(<<w, n + i>>, batch[i].source, batch[i].country, batch[i].type,
                      NullId, batch[i].google_place_id, Null, batch[i].name) : i \in fresh }

\* INSERT ... ON CONFLICT (google_place_id) DO UPDATE is one statement: it
\* fails when two records of the batch have the same google_place_id or the
\* table rejects the result.
UpsertOk(rows, batch, w, n) ==
  /\ \A i, j \in 1..Len(batch) :
       batch[i].google_place_id = batch[j].google_place_id => i = j
  /\ TableAccepts(UpsertRows(rows, batch, w, n))

GoogDone(p, code) == [goog EXCEPT ![p].pc = "done", ![p].status = code]

\* The request arrives and the handler runs up to its first store write:
\* a request without a type is refused; outcome is what
\* await searchNearbyPlaces(...) met: Failed when it threw (the country of
\* the location could not be resolved), else the places it returned, each
\* place_id once.
GoogleRequest(p, type, outcome) ==
  /\ goog[p].pc \in {"idle", "done"}
  /\ goog' = [goog EXCEPT ![p] =
               IF type = Null \/ ~outcome.ok
               THEN [GoogIdle EXCEPT !.pc = "done", !.status = 500, !.type = type]
               ELSE LET f == formatPlaces(outcome.data, type)
                    IN  IF Len(f) > 0
                        THEN [GoogIdle EXCEPT !.pc = "upsert", !.type = type,
                                              !.formattedPlaces = f]
                        ELSE [GoogIdle EXCEPT !.pc = "done", !.type = type,
                                              !.status = 200]]

\* One turn of the batch loop.
GoogleUpsertBatch(p) ==
  /\ goog[p].pc = "upsert"
  /\ LET w == GoogWriter(p)
         batch == Batch(goog[p].formattedPlaces, goog[p].i)
         i2 == goog[p].i + batchSize
     IN  \E fault \in FaultChoices :
           /\ faults' = IF fault THEN faults - 1 ELSE faults
           /\ IF fault \/ ~UpsertOk(store, batch, w, nextId[w])
              THEN /\ goog' = GoogDone(p, 500)
                   /\ UNCHANGED <<store, nextId, lastUpsert>>
              ELSE /\ store' = UpsertRows(store, batch, w, nextId[w])
                   /\ nextId' = [nextId EXCEPT ![w] = @ + Len(batch)]
                   /\ lastUpsert' =
                        <<[batch |-> batch,
                           again |-> lastUpsert # <<>> /\ lastUpsert[1].batch = batch,
                           rows |-> {r \in UpsertRows(store, batch, w, nextId[w]) :
                                       \E k \in 1..Len(batch) :
                                         batch[k].google_place_id = r.google_place_id}]>>
                   /\ goog' = IF i2 < Len(goog[p].formattedPlaces)
                              THEN [goog EXCEPT ![p].i = i2]
                              ELSE [goog EXCEPT ![p].i = i2, ![p].pc = "done",
                                                ![p].status = 200]

\* ------------------------------------------------------------------------
\* searchServices and its retryFetch
\* ------------------------------------------------------------------------
RECURSIVE RowsInOrder(_)
\* The rows of a select, in the order they were generated.
RowsInOrder(rows) ==
  IF rows = {} THEN <<>>
  ELSE LET r == CHOOSE x \in rows : \A y \in rows : x.id[2] <= y.id[2]
       IN  <<r>> \o RowsInOrder(rows \ {r})

\* .select('*').eq('type', type).eq('country', country).eq('source', 'manual')
SelectManual(rows, type, country) ==
  RowsInOrder({r \in rows : r.type = type /\ r.country = country /\ r.source = "manual"})

Tag(service, priority, badge) ==
  [service |-> service, priority |-> priority, badge |-> badge]
TagAll(services, priority, badge) ==
  [i \in 1..Len(services) |-> Tag(services[i], priority, badge)]

\* [...internal.map(..), ...osm.map(..), ...google.map(..)]
allServices(internal, osmList, googleList) ==
  TagAll(internal, 1, "Verified") \o TagAll(osmList, 2, "OSM")
    \o TagAll(googleList, 3, "GooglePlaces")

\* x placed behind every element whose priority is not larger (stable).
InsertByPriority(sorted, x) ==
  LET n == Cardinality({i \in 1..Len(sorted) : sorted[i].priority <= x.priority})
  IN  SubSeq(sorted, 1, n) \o <<x>> \o SubSeq(sorted, n + 1, Len(sorted))

RECURSIVE SortByPriority(_)
\* .sort((a, b) => a.priority - b.priority)
SortByPriority(s) ==
  IF s = <<>> THEN <<>>
  ELSE InsertByPriority(SortByPriority(SubSeq(s, 1, Len(s) - 1)), s[Len(s)])

\* Faulty variant of sortedServices: the sort without the slice.
sortedServicesAll(all) == SortByPriority(all)

\* .sort(...).slice(0, 5)
sortedServices(all) == Take(SortByPriority(all), TopN)

WithPriority(s, p) == SelectSeq(s, LAMBDA x : x.priority = p)

\* Faulty variant of Aggregate: an empty result is reported as an error.
AggregateErrOnEmpty(internal, osmList, googleList) ==
  LET sorted == sortedServices(allServices(internal, osmList, googleList))
  IN  [internal |-> WithPriority(sorted, 1),
       osm |-> WithPriority(sorted, 2),
       google |-> WithPriority(sorted, 3),
       error |-> IF Len(sorted) = 0 THEN "No results" ELSE Null]

\* Faulty variant of Aggregate: a source without results is reported in
\* error while the buckets of the other sources are returned.
AggregateWithWarning(internal, osmList, googleList) ==
  LET sorted == sortedServices(allServices(internal, osmList, googleList))
  IN  [internal |-> WithPriority(sorted, 1),
       osm |-> WithPriority(sorted, 2),
       google |-> WithPriority(sorted, 3),
       error |-> IF Len(internal) = 0 \/ Len(osmList) = 0 \/ Len(googleList) = 0
                 THEN "Some sources returned nothing" ELSE Null]

\* The object searchServices returns when nothing threw.
Aggregate(internal, osmList, googleList) ==
  LET sorted == sortedServices(allServices(internal, osmList, googleList))
  IN  [internal |-> WithPriority(sorted, 1),
       osm |-> WithPriority(sorted, 2),
       google |-> WithPriority(sorted, 3),
       error |-> Null]

\* Faulty variant of ErrorResult: the catch block loses the message.
ErrorResultNull(message) ==
  [internal |-> <<>>, osm |-> <<>>, google |-> <<>>, error |-> Null]

\* The object the catch block returns.
ErrorResult(message) ==
  [internal |-> <<>>, osm |-> <<>>, google |-> <<>>, error |-> message]

NoResult == [internal |-> <<>>, osm |-> <<>>, google |-> <<>>, error |-> "none"]

\* Faulty variant of Responses: the values in the order of completion.
ResponsesByCompletion(t, order) == <<t[order[1]].value, t[order[2]].value>>

\* const [osmResponse, googleResponse] = await Promise.allSettled([...]):
\* the values by position in the array, whatever the order of completion.
Responses(t, order) == <<t["osm"].value, t["google"].value>>

TaskIdle == [st |-> "idle", i |-> 0, value |-> <<>>, failed |-> FALSE]
Tasks == {"osm", "google"}

\* The call of searchServices up to its first await and the await of the
\* internal query: a database error throws before any provider is called.
QueryInternal ==
  /\ pc = "idle" \/ (pc = "done" /\ prev = <<>>)
  /\ searches' = searches + 1
  /\ prev' = IF pc = "done"
             THEN <<[dbDown |-> env.dbDown, internal |-> internalRes,
                     osm |-> task["osm"].value, google |-> task["google"].value,
                     order |-> settled, result |-> result]>>
             ELSE prev
  /\ settled' = <<>>
  /\ IF env.dbDown
     THEN /\ pc' = "done"
          /\ internalRes' = <<>>
          /\ task' = [t \in Tasks |-> TaskIdle]
          /\ result' = ErrorResult("Database error")
     ELSE /\ pc' = "fanout"
          /\ internalRes' = SelectManual(store, ReqType, ReqCountry)
          /\ task' = [t \in Tasks |-> [TaskIdle EXCEPT !.st = "attempt"]]
          /\ result' = NoResult
  /\ UNCHANGED <<store, nextId, faults, ops, env, call, osm, goog, lastUpsert>>

\* What the source of call t answers to attempt i of this search.
\* fetchOsmServices throws both when its Overpass request failed and when
\* the response has no elements array (data.elements.map is inside its try).
SourceAnswer(t, i) ==
  IF t = "osm"
  THEN (IF env.malformed \/ i < env.osmFails THEN Failed ELSE Answer(env.overpass))
  ELSE (IF i < env.googleFails THEN Failed ELSE Answer(env.places))

\* Faulty variant of Received: the body of the last failed response is kept
\* as the value of the call.
ReceivedKeepsBody(t, h, services) ==
  IF h.pc # "done" THEN [task EXCEPT ![t].st = "waiting"]
  ELSE IF h.status = 200
  THEN [task EXCEPT ![t].st = "settled", ![t].value = services]
  ELSE IF task[t].i = Retries - 1
  THEN [task EXCEPT ![t].st = "settled", ![t].value = services, ![t].failed = TRUE]
  ELSE [task EXCEPT ![t].st = "attempt", ![t].i = @ + 1]

\* Faulty variant of Received: the failure of one call settles the other
\* call as failed too, whether or not it was started.
ReceivedCancelsOther(t, h, services) ==
  IF h.pc # "done" THEN [task EXCEPT ![t].st = "waiting"]
  ELSE IF h.status = 200
  THEN [task EXCEPT ![t].st = "settled", ![t].value = services]
  ELSE IF task[t].i = Retries - 1
  THEN [u \in Tasks |->
          IF u = t \/ task[u].st = "attempt"
          THEN [task[u] EXCEPT !.st = "settled", !.value = <<>>, !.failed = TRUE]
          ELSE task[u]]
  ELSE [task EXCEPT ![t].st = "attempt", ![t].i = @ + 1]

\* retryFetch on the response of attempt task[t].i, h being the request of
\* that attempt: while it runs the call waits; a 2xx response is returned
\* and its services are the value of the call; any other response is an
\* error, retried until attempt Retries - 1, after which the catch of the
\* call returns { services: [] }.
Received(t, h, services) ==
  IF h.pc # "done" THEN [task EXCEPT ![t].st = "waiting"]
  ELSE IF h.status = 200
  THEN [task EXCEPT ![t].st = "settled", ![t].value = services]
  ELSE IF task[t].i = Retries - 1
  THEN [task EXCEPT ![t].st = "settled", ![t].value = <<>>, ![t].failed = TRUE]
  ELSE [task EXCEPT ![t].st = "attempt", ![t].i = @ + 1]

\* The calls in the order they completed.
SettledWith(t, h) ==
  IF h.pc = "done" /\ (h.status = 200 \/ task[t].i = Retries - 1)
  THEN Append(settled, t) ELSE settled

\* retryFetch: one fetch(url, ...) of the loop, which starts a request.
RetryFetchAttempt(t) ==
  /\ pc = "fanout"
  /\ task[t].st = "attempt"
  /\ IF t = "osm"
     THEN /\ OsmRequest("c", ReqCountry, SourceAnswer(t, task[t].i))
          /\ task' = Received(t, osm'["c"], osm'["c"].osmServices)
          /\ settled' = SettledWith(t, osm'["c"])
          /\ UNCHANGED goog
     ELSE /\ GoogleRequest("c", ReqType, SourceAnswer(t, task[t].i))
          /\ task' = Received(t, goog'["c"], goog'["c"].formattedPlaces)
          /\ settled' = SettledWith(t, goog'["c"])
          /\ UNCHANGED osm
  /\ UNCHANGED <<store, nextId, faults, ops, env, call, pc, searches, internalRes,
                 result, prev, lastUpsert>>

\* Both calls have settled: merge, sort, truncate and return.
Merge ==
  /\ pc = "fanout"
  /\ \A t \in Tasks : task[t].st = "settled"
  /\ pc' = "done"
  /\ LET r == Responses(task, settled)
     IN  result' = Aggregate(internalRes, r[1], r[2])
  /\ UNCHANGED <<store, nextId, faults, ops, env, call, searches, internalRes, task,
                 settled, prev, osm, goog, lastUpsert>>

\* ------------------------------------------------------------------------
\* Spec: one client calling searchServices
\* ------------------------------------------------------------------------
\* The rows the table holds before the first search: k manual clinics of the
\* requested country, two manual rows the query must not return, and two
\* OSM rows and one GooglePlaces row left by earlier refreshes.
ManualClinics(k) ==
  { Row(<<"ui", i>>, "manual", ReqCountry, ReqType, NullId, Null, "u1", "a") : i \in 1..k }

OtherRows(k) ==
  { Row(<<"ui", k + 1>>, "manual", ReqCountry, "shelter", NullId, Null, "u2", "a"),
    Row(<<"ui", k + 2>>, "manual", "Kenya", ReqType, NullId, Null, "u1", "a"),
    Row(<<"osm-r1", 1>>, "OSM", ReqCountry, "clinic", <<"node", "1">>, Null, Null, "b"),
    Row(<<"osm-r1", 2>>, "OSM", "Kenya", "clinic", <<"node", "3">>, Null, Null, "b"),
    Row(<<"goog-g1", 1>>, "GooglePlaces", ReqCountry, "clinic", NullId, "p1", Null, "b") }

\* The places the google-places search returns: the first n known places.
PlacesFound(n, country) ==
  [i \in 1..n |-> [place_id |-> PlaceOrder[i], name |-> "a", country |-> country]]

\* How many calls of one retryFetch each provider fails before it answers:
\* none, the first one, or all Retries of them.  At most one provider
\* recovers on the second call.
FailProfiles ==
  { f \in {0, 1, Retries} \X {0, 1, Retries} :
      (f[1] = 1 => f[2] = 0) /\ (f[2] = 1 => f[1] = 0) }

Init ==
  /\ \E k \in 0..MaxManual :
       /\ store = ManualClinics(k) \cup OtherRows(k)
       /\ nextId = [w \in Writers |->
                      IF w = "ui" THEN k + 2 ELSE IF w = "osm-r1" THEN 2
                      ELSE IF w = "goog-g1" THEN 1 ELSE 0]
  /\ faults = 0
  /\ ops = 0
  /\ \E db \in BOOLEAN, f \in FailProfiles,
        ov \in SeqsUpTo(OsmElements, MaxOsm), n \in 0..MaxPlaces :
       env = [dbDown |-> db, osmFails |-> f[1], googleFails |-> f[2],
              overpass |-> ov, places |-> PlacesFound(n, ReqCountry),
              malformed |-> FALSE]
  /\ pc = "idle"
  /\ searches = 0
  /\ internalRes = <<>>
  /\ task = [t \in Tasks |-> TaskIdle]
  /\ settled = <<>>
  /\ result = NoResult
  /\ prev = <<>>
  /\ osm = [p \in OsmProcs |-> OsmIdle]
  /\ goog = [p \in GoogProcs |-> GoogIdle]
  /\ lastUpsert = <<>>
  /\ call = NoCall

\* The store writes of the two requests the client started; the response
\* of a request that ends goes to the retryFetch that awaits it.
ClientOsmDelete ==
  /\ task["osm"].st = "waiting"
  /\ OsmDelete("c")
  /\ task' = Received("osm", osm'["c"], osm'["c"].osmServices)
  /\ settled' = SettledWith("osm", osm'["c"])
  /\ UNCHANGED <<ops, env, call, pc, searches, internalRes, result, prev, goog, lastUpsert>>

ClientOsmInsert ==
  /\ task["osm"].st = "waiting"
  /\ OsmInsert("c")
  /\ task' = Received("osm", osm'["c"], osm'["c"].osmServices)
  /\ settled' = SettledWith("osm", osm'["c"])
  /\ UNCHANGED <<ops, env, call, pc, searches, internalRes, result, prev, goog, lastUpsert>>

ClientGoogleUpsertBatch ==
  /\ task["google"].st = "waiting"
  /\ GoogleUpsertBatch("c")
  /\ task' = Received("google", goog'["c"], goog'["c"].formattedPlaces)
  /\ settled' = SettledWith("google", goog'["c"])
  /\ UNCHANGED <<ops, env, call, pc, searches, internalRes, result, prev, osm>>

Next ==
  \/ QueryInternal
  \/ \E t \in Tasks : RetryFetchAttempt(t)
  \/ ClientOsmDelete
  \/ ClientOsmInsert
  \/ ClientGoogleUpsertBatch
  \/ Merge

Spec == Init /\ [][Next]_vars

\* ------------------------------------------------------------------------
\* ShapeSpec: the same client, with an Overpass that may answer 200 with a
\* body that has no elements array
\* ------------------------------------------------------------------------
ShapeInit ==
  /\ store = ManualClinics(1) \cup OtherRows(1)
  /\ nextId = [w \in Writers |->
                 IF w = "ui" THEN 3 ELSE IF w = "osm-r1" THEN 2
                 ELSE IF w = "goog-g1" THEN 1 ELSE 0]
  /\ faults = 0
  /\ ops = 0
  /\ \E f \in FailProfiles, ov \in SeqsUpTo(OsmElements, 1), n \in 0..1,
        m \in BOOLEAN :
       env = [dbDown |-> FALSE, osmFails |-> f[1], googleFails |-> f[2],
              overpass |-> ov, places |-> PlacesFound(n, ReqCountry),
              malformed |-> m]
  /\ pc = "idle"
  /\ searches = 0
  /\ internalRes = <<>>
  /\ task = [t \in Tasks |-> TaskIdle]
  /\ settled = <<>>
  /\ result = NoResult
  /\ prev = <<>>
  /\ osm = [p \in OsmProcs |-> OsmIdle]
  /\ goog = [p \in GoogProcs |-> GoogIdle]
  /\ lastUpsert = <<>>
  /\ call = NoCall

ShapeSpec == ShapeInit /\ [][Next]_vars

\* ------------------------------------------------------------------------
\* StoreSpec: refreshes, upserts and manual edits, interleaved
\* ------------------------------------------------------------------------
\* Row level security of UPDATE and DELETE for the signed-in user u.
OwnRow(u, r) == r.created_by = u \/ (r.created_by = Null /\ r.source = "manual")

\* The Overpass answers of StoreSpec: every known element at most once.
RECURSIVE Orderings(_)
Orderings(S) ==
  IF S = {} THEN {<<>>}
  ELSE UNION {{<<x>> \o o : o \in Orderings(S \ {x})} : x \in S}
OverpassAnswers == UNION {Orderings(S) : S \in SUBSET OsmElements}

\* The places answers of StoreSpec: the first n known places, n up to 2.
PlacesAnswers == {PlacesFound(n, c) : n \in 0..2, c \in {ReqCountry}}

StoreInit ==
  /\ store = ManualClinics(1) \cup OtherRows(1)
  /\ nextId = [w \in Writers |->
                 IF w = "ui" THEN 3 ELSE IF w = "osm-r1" THEN 2
                 ELSE IF w = "goog-g1" THEN 1 ELSE 0]
  /\ faults \in 0..MaxFaults
  /\ ops = MaxOps
  /\ env = [dbDown |-> FALSE, osmFails |-> 0, googleFails |-> 0,
            overpass |-> <<>>, places |-> <<>>, malformed |-> FALSE]
  /\ pc = "idle"
  /\ searches = 0
  /\ internalRes = <<>>
  /\ task = [t \in Tasks |-> TaskIdle]
  /\ settled = <<>>
  /\ result = NoResult
  /\ prev = <<>>
  /\ osm = [p \in OsmProcs |-> OsmIdle]
  /\ goog = [p \in GoogProcs |-> GoogIdle]
  /\ lastUpsert = <<>>
  /\ call = NoCall

\* A refresh of the OSM rows of a country is requested; it takes request
\* r1, or r2 while r1 is running.
RefreshOsm(country, outcome) ==
  /\ ops > 0
  /\ ops' = ops - 1
  /\ LET p == IF osm["r1"].pc \in {"idle", "done"} THEN "r1" ELSE "r2"
     IN  OsmRequest(p, country, outcome)
  /\ UNCHANGED <<store, nextId, faults, env, call, searchVars, goog, lastUpsert>>

RefreshOsmDelete(p) ==
  /\ p # "c"
  /\ OsmDelete(p)
  /\ UNCHANGED <<ops, env, call, searchVars, goog, lastUpsert>>

RefreshOsmInsert(p) ==
  /\ p # "c"
  /\ OsmInsert(p)
  /\ UNCHANGED <<ops, env, call, searchVars, goog, lastUpsert>>

\* A refresh of the GooglePlaces rows is requested.
RefreshGoogle(type, outcome) ==
  /\ ops > 0
  /\ ops' = ops - 1
  /\ GoogleRequest("g1", type, outcome)
  /\ UNCHANGED <<store, nextId, faults, env, call, searchVars, osm, lastUpsert>>

RefreshGoogleUpsertBatch ==
  /\ GoogleUpsertBatch("g1")
  /\ UNCHANGED <<ops, env, call, searchVars, osm>>

\* ServiceForm, new service: source takes its default 'manual' and both
\* external ids stay null.
ManualInsert(u, country, type, name) ==
  /\ ops > 0
  /\ ops' = ops - 1
  /\ LET new == Row(<<"ui", nextId["ui"] + 1>>, "manual", country, type,
                    NullId, Null, u, name)
     IN  IF InsertOk(store, {new})
         THEN /\ store' = store \cup {new}
              /\ nextId' = [nextId EXCEPT !["ui"] = @ + 1]
         ELSE UNCHANGED <<store, nextId>>
  /\ UNCHANGED <<faults, env, call, searchVars, osm, goog, lastUpsert>>

\* ServiceForm, edit of the service with this id: the form fields are
\* written to the rows the policy lets the user update.
ManualUpdate(u, id, name) ==
  /\ ops > 0
  /\ ops' = ops - 1
  /\ store' = {IF r.id = id /\ OwnRow(u, r) THEN [r EXCEPT !.name = name] ELSE r
                : r \in store}
  /\ UNCHANGED <<nextId, faults, env, call, searchVars, osm, goog, lastUpsert>>

\* Dashboard, delete of the service with this id.
ManualDelete(u, id) ==
  /\ ops > 0
  /\ ops' = ops - 1
  /\ store' = {r \in store : ~(r.id = id /\ OwnRow(u, r))}
  /\ UNCHANGED <<nextId, faults, env, call, searchVars, osm, goog, lastUpsert>>

StoreNext ==
  \/ \E country \in Countries \cup {Null},
        outcome \in {Failed} \cup {Answer(a) : a \in OverpassAnswers} :
       RefreshOsm(country, outcome)
  \/ \E p \in OsmProcs : RefreshOsmDelete(p)
  \/ \E p \in OsmProcs : RefreshOsmInsert(p)
  \/ \E type \in {ReqType, Null},
        outcome \in {Failed} \cup {Answer(a) : a \in PlacesAnswers} :
       RefreshGoogle(type, outcome)
  \/ RefreshGoogleUpsertBatch
  \/ \E u \in Users, country \in Countries : ManualInsert(u, country, ReqType, "a")
  \/ \E u \in Users, r \in store, name \in Names : ManualUpdate(u, r.id, name)
  \/ \E u \in Users, r \in store : ManualDelete(u, r.id)

StoreSpec == StoreInit /\ [][StoreNext]_vars

\* ------------------------------------------------------------------------
\* Properties of searchServices (under Spec)
\* ------------------------------------------------------------------------
Services(bucket) == [i \in 1..Len(bucket) |-> bucket[i].service]
IsPrefix(s, t) == Len(s) <= Len(t) /\ s = SubSeq(t, 1, Len(s))
NoDuplicate(elements) ==
  \A i, j \in 1..Len(elements) : elements[i] = elements[j] => i = j
AllEmpty(res) == Len(res.internal) = 0 /\ Len(res.osm) = 0 /\ Len(res.google) = 0

\* What each source has for the request of this run.
ManualResults == SelectManual(store, ReqType, ReqCountry)
OsmResults == fetchOsmServices(env.overpass, ReqCountry)
GoogleResults == formatPlaces(env.places, ReqType)

\* Which sources fail in this run: the internal query, and each provider
\* lookup when every one of its Retries calls ends with an error.
InternalFails == env.dbDown
OsmFails == env.osmFails = Retries \/ ~NoDuplicate(env.overpass)
GoogleFails == env.googleFails = Retries

\* The provider calls failed exactly as the environment makes them fail.
ProvidersFailAsTheEnvironmentSays ==
  (pc = "done" /\ ~env.dbDown) =>
    /\ task["osm"].failed <=> OsmFails
    /\ task["google"].failed <=> GoogleFails

C2_TotalFailure ==
  (pc = "done" /\ InternalFails /\ OsmFails /\ GoogleFails) =>
    (result.error # Null /\ AllEmpty(result))

\* C2, reached: a search that ended with all three sources down.
C2_Witness ==
  /\ pc = "done"
  /\ env.dbDown /\ env.osmFails = Retries /\ env.googleFails = Retries
  /\ result.error = "Database error"

C4_Input ==
  /\ ~env.dbDown /\ env.osmFails = 0 /\ env.googleFails = 0
  /\ Len(ManualResults) = 2
  /\ Len(env.overpass) = 3 /\ Cardinality(Range(env.overpass)) = 2
  /\ Len(env.places) = 4

\* C4 (as stated): in that scenario searchServices returns five records:
\* the two manual ones, two OSM ones (the duplicate removed), one Google one.
C4_Scenario ==
  (pc = "done" /\ C4_Input) =>
    /\ Len(result.internal) = 2
    /\ Len(result.osm) = 2
    /\ NoDuplicate(Services(result.osm))
    /\ Len(result.google) = 1

\* C4, what the program returns instead: the insert of the three OSM rows
\* is rejected on each call, so the OSM bucket is empty and three Google
\* records follow the two manual ones.
C4_Observed ==
  /\ pc = "done" /\ C4_Input
  /\ task["osm"].failed
  /\ Len(result.internal) = 2
  /\ Len(result.osm) = 0
  /\ Len(result.google) = 3

\* C5: the buckets internal ++ osm ++ google of a result without error are
\* the first five of internal results ++ OSM results ++ Google results, each
\* source in its own order; so their number is min(5, number available) and
\* a bucket is non-empty only if the sources before it have fewer than five.
C5_TopFiveOfConcatenation ==
  (pc = "done" /\ result.error = Null) =>
    LET available == internalRes \o task["osm"].value \o task["google"].value
        returned == Services(result.internal) \o Services(result.osm)
                      \o Services(result.google)
    IN  /\ returned = Take(available, TopN)
        /\ Len(returned) = Min(TopN, Len(available))
        /\ Len(result.osm) > 0 => Len(internalRes) < TopN
        /\ Len(result.google) > 0 => Len(internalRes) + Len(task["osm"].value) < TopN

\* C5, reached: seven records available, five returned as 1 + 2 + 2.
C5_Witness ==
  /\ pc = "done" /\ result.error = Null
  /\ Len(internalRes) = 1 /\ Len(task["osm"].value) = 2 /\ Len(task["google"].value) = 4
  /\ Len(result.internal) = 1 /\ Len(result.osm) = 2 /\ Len(result.google) = 2

\* C6: two calls of searchServices that got the same internal, OSM and
\* Google results return the same buckets in the same order, in whatever
\* order the provider calls completed.
C6_MergeDeterminism ==
  (/\ pc = "done" /\ prev # <<>>
   /\ prev[1].dbDown = env.dbDown
   /\ prev[1].internal = internalRes
   /\ prev[1].osm = task["osm"].value
   /\ prev[1].google = task["google"].value)
  => result = prev[1].result

\* C6, reached: two calls with the same results whose provider calls
\* completed in different orders.
C6_Witness ==
  /\ pc = "done" /\ prev # <<>>
  /\ prev[1].internal = internalRes
  /\ prev[1].osm = task["osm"].value
  /\ prev[1].google = task["google"].value
  /\ Len(settled) = 2 /\ Len(prev[1].order) = 2 /\ prev[1].order # settled
  /\ Len(result.osm) > 0 /\ Len(result.google) > 0

\* The rows a search for ReqCountry leaves alone.
Untouched(rows) ==
  {r \in rows : r.source = "manual" \/ (r.source = "OSM" /\ r.country # ReqCountry)}

ProviderCalled(t) ==
  IF t = "osm" THEN osm["c"].pc # "idle" ELSE goog["c"].pc # "idle"

C28_ResultOrEmptyError ==
  pc = "done" =>
    /\ DOMAIN result = {"internal", "osm", "google", "error"}
    /\ result # NoResult
    /\ result.error # Null => AllEmpty(result)
    /\ result.error = Null =>
         Len(result.internal) + Len(result.osm) + Len(result.google) <= TopN

\* C28, reached: the second search of a client whose database is down and
\* whose providers have results ended with an error and empty buckets.
C28_Witness ==
  /\ pc = "done" /\ searches = 2
  /\ env.dbDown /\ Len(env.overpass) > 0 /\ Len(env.places) > 0
  /\ result.error = "Database error" /\ AllEmpty(result)

\* The type fields of the records of a bucket.
TypesOf(bucket) == {bucket[i].service.type : i \in 1..Len(bucket)}

\* C29: every record of the internal, osm and google buckets of an ended
\* search has the requested type.
C29_TypeConsistency ==
  pc = "done" =>
    TypesOf(result.internal) \cup TypesOf(result.osm) \cup TypesOf(result.google)
      \subseteq {ReqType}

\* C29, the diverging case: a search for clinics ended without error and
\* its OSM bucket holds the NGO office, a record of type "other".
C29_OtherTypeInOsmBucket ==
  /\ pc = "done" /\ result.error = Null
  /\ \E i \in 1..Len(result.osm) :
       /\ result.osm[i].service.osm_id = <<"node", "2">>
       /\ result.osm[i].service.type = "other"
       /\ result.osm[i].service.type # ReqType

\* ------------------------------------------------------------------------
\* Properties of the table writers (under StoreSpec)
\* ------------------------------------------------------------------------
\* The OSM rows of a country, as the service records they were inserted from.
OsmRowsOf(rows, country) ==
  { [osm_id |-> r.osm_id, name |-> r.name, type |-> r.type, source |-> r.source,
     country |-> r.country] : r \in {x \in rows : x.source = "OSM" /\ x.country = country} }

\* The rows a refresh of the OSM rows of a country has no business with.
NotOsmOf(rows, country) == {r \in rows : ~(r.source = "OSM" /\ r.country = country)}

\* C8 (as stated): a refresh r1 that no other refresh overlaps changes no
\* manual row, no GooglePlaces row and no OSM row of another country, and
\* when it ends with success the OSM rows of its country are exactly the
\* fetched set, the empty set included.
C8_ReplaceByCountry ==
  [][ (osm["r2"].pc = "idle" /\ osm'["r1"] # osm["r1"]) =>
        /\ NotOsmOf(store', osm'["r1"].country) = NotOsmOf(store, osm'["r1"].country)
        /\ (osm'["r1"].pc = "done" /\ osm'["r1"].status = 200) =>
             OsmRowsOf(store', osm'["r1"].country) = Range(osm'["r1"].osmServices) ]_vars

\* C8, what the program does instead: a refresh that fetched the empty set
\* ended with success and the old OSM row of its country is still there.
C8_StaleRowsKept ==
  /\ osm["r2"].pc = "idle"
  /\ osm["r1"].pc = "done" /\ osm["r1"].status = 200
  /\ osm["r1"].country = ReqCountry
  /\ Len(osm["r1"].osmServices) = 0
  /\ \E r \in store : r.id = <<"osm-r1", 1>> /\ r.source = "OSM" /\ r.country = ReqCountry

\* C9: an upsert of the same batch as the upsert before it leaves exactly
\* one row for each google_place_id of the batch, and that row has the id
\* and the created_by it had after the upsert before.
C9_UpsertIdempotent ==
  [][ (/\ goog["g1"].pc = "upsert"
       /\ goog'["g1"].pc = "done" /\ goog'["g1"].status = 200
       /\ lastUpsert' # <<>> /\ lastUpsert'[1].again) =>
        \A k \in 1..Len(lastUpsert'[1].batch) :
          LET gp == lastUpsert'[1].batch[k].google_place_id
              now == {r \in store' : r.google_place_id = gp}
              before == {r \in lastUpsert[1].rows : r.google_place_id = gp}
          IN  /\ Cardinality(now) = 1
              /\ Cardinality(before) = 1
              /\ \A r \in now, q \in before :
                   r.id = q.id /\ r.created_by = q.created_by ]_vars

\* C9, reached: the same batch of two places was upserted twice in a row.
C9_Witness ==
  /\ goog["g1"].pc = "done" /\ goog["g1"].status = 200
  /\ lastUpsert # <<>>
  /\ lastUpsert[1].again
  /\ Len(lastUpsert[1].batch) = 2
  /\ Cardinality(lastUpsert[1].rows) = 2

\* C10: in every state that upserts, refreshes and manual inserts, updates
\* and deletes reach, in any interleaving, no two rows have the same
\* non-null google_place_id and no two rows have the same non-null osm_id.
C10_OneRowPerExternalId ==
  /\ services_google_place_id_key(store)
  /\ services_osm_id_key(store)

\* C10, reached: two overlapping refreshes fetched the same elements for
\* the same country; the first inserted them and the insert of the second,
\* with no outside fault, was rejected.
C10_Witness ==
  /\ faults = MaxFaults
  /\ osm["r1"].pc = "done" /\ osm["r1"].status = 200
  /\ osm["r2"].pc = "done" /\ osm["r2"].status = 500
  /\ Len(osm["r2"].osmServices) > 0
  /\ osm["r2"].osmServices = osm["r1"].osmServices
  /\ osm["r2"].country = osm["r1"].country
  /\ osm["r1"].country # Null

\* ------------------------------------------------------------------------
\* AdmitSpec: rows written through the data API, then refreshed
\* ------------------------------------------------------------------------
\* The rows a signed-in user sends to the table directly: source, osm_id
\* and google_place_id as the user chooses them.
ApiCandidates ==
  { <<"manual", NullId, Null>>,
    <<"manual", NullId, "p2">>,
    <<"manual", <<"node", "2">>, Null>>,
    <<"OSM", NullId, Null>>,
    <<"OSM", <<"node", "9">>, Null>>,
    <<"GooglePlaces", NullId, Null>>,
    <<"partner", NullId, Null>>,
    <<Null, NullId, Null>> }

\* Row level security of INSERT for the signed-in user u.
MayInsert(u, r) == r.created_by = u

\* supabase.from('services').insert(row) by user u: the row is stored when
\* the insert policy and the constraints of the table admit it.
DataApiInsert(u, c, by) ==
  /\ ops > 0
  /\ ops' = ops - 1
  /\ LET new == Row(<<"api", nextId["api"] + 1>>, c[1], ReqCountry, ReqType,
                    c[2], c[3], by, "b")
     IN  IF MayInsert(u, new) /\ InsertOk(store, {new})
         THEN /\ store' = store \cup {new}
              /\ nextId' = [nextId EXCEPT !["api"] = @ + 1]
         ELSE UNCHANGED <<store, nextId>>
  /\ UNCHANGED <<faults, env, call, searchVars, osm, goog, lastUpsert>>

\* The places answers of AdmitSpec: none, two, or enough for two batches.
ManyPlaces == {PlacesFound(n, ReqCountry) : n \in {0, 2, batchSize + 1, batchSize + 3}}

\* A google-places request arrives; the table it finds is kept aside.
AdmitGoogle(type, outcome) ==
  /\ ops > 0
  /\ ops' = ops - 1
  /\ GoogleRequest("g1", type, outcome)
  /\ call' = [fn |-> "google-places", before |-> store]
  /\ UNCHANGED <<store, nextId, faults, env, searchVars, osm, lastUpsert>>

AdmitInit ==
  /\ store = ManualClinics(1) \cup OtherRows(1)
  /\ nextId = [w \in Writers |->
                 IF w = "ui" THEN 3 ELSE IF w = "osm-r1" THEN 2
                 ELSE IF w = "goog-g1" THEN 1 ELSE 0]
  /\ faults \in 0..MaxFaults
  /\ ops = MaxOps
  /\ env = [dbDown |-> FALSE, osmFails |-> 0, googleFails |-> 0,
            overpass |-> <<>>, places |-> <<>>, malformed |-> FALSE]
  /\ pc = "idle"
  /\ searches = 0
  /\ internalRes = <<>>
  /\ task = [t \in Tasks |-> TaskIdle]
  /\ settled = <<>>
  /\ result = NoResult
  /\ prev = <<>>
  /\ osm = [p \in OsmProcs |-> OsmIdle]
  /\ goog = [p \in GoogProcs |-> GoogIdle]
  /\ lastUpsert = <<>>
  /\ call = NoCall

AdmitNext ==
  \/ \E u \in Users, c \in ApiCandidates, by \in {"u1", Null} : DataApiInsert(u, c, by)
  \/ \E outcome \in {Answer(a) : a \in OverpassAnswers} : RefreshOsm(ReqCountry, outcome)
  \/ \E p \in OsmProcs : RefreshOsmDelete(p)
  \/ \E p \in OsmProcs : RefreshOsmInsert(p)
  \/ \E outcome \in {Failed} \cup {Answer(a) : a \in ManyPlaces} :
       AdmitGoogle(ReqType, outcome)
  \/ RefreshGoogleUpsertBatch

AdmitSpec == AdmitInit /\ [][AdmitNext]_vars

\* ------------------------------------------------------------------------
\* Properties of the refreshes over admitted rows (under AdmitSpec)
\* ------------------------------------------------------------------------
\* C11 (as stated): every step of an OSM replace-by-country or of a Google
\* Places upsert leaves every manual row the table holds in the table, with
\* all its fields as they were.
C11_ManualRowsUntouched ==
  [][ (osm' # osm \/ goog' # goog) =>
        \A r \in store : r.source = "manual" => r \in store' ]_vars

\* C11, what the program does instead: a manual row that carries a
\* google_place_id was admitted, and an upsert of that place has taken the
\* row over: its source is now GooglePlaces, its owner is still the user.
C11_ManualRowOverwritten ==
  /\ lastUpsert # <<>>
  /\ \E r \in lastUpsert[1].rows :
       /\ r.id[1] = "api"
       /\ r.source = "GooglePlaces"
       /\ r.google_place_id = "p2"
       /\ r.created_by \in Users
       /\ r \in store

\* The rows of the table for the places of the running request g1.
RowsOfRequest(rows) ==
  {r \in rows : \E k \in 1..Len(goog["g1"].formattedPlaces) :
                  goog["g1"].formattedPlaces[k].google_place_id = r.google_place_id}

\* C12 (as stated): when the upsert of a batch fails, the request goes on
\* to no later batch and reports failure, and the rows of its places are
\* those the table had when the request arrived (no direct insert having
\* been made meanwhile).
C12_AllOrNothing ==
  [][ (/\ goog["g1"].pc = "upsert"
       /\ goog'["g1"].pc = "done" /\ goog'["g1"].status = 500
       /\ nextId["api"] = 0) =>
        /\ goog'["g1"].i = goog["g1"].i
        /\ call.fn = "google-places"
        /\ RowsOfRequest(store') = RowsOfRequest(call.before) ]_vars

\* C12, what the program does instead: the second batch failed, the
\* request answered 500, and rows of the first batch that the table did not
\* have before are in the table.
C12_FirstBatchKept ==
  /\ goog["g1"].pc = "done" /\ goog["g1"].status = 500
  /\ goog["g1"].i = batchSize
  /\ Len(goog["g1"].formattedPlaces) > batchSize
  /\ nextId["api"] = 0
  /\ call.fn = "google-places"
  /\ \A r \in call.before : r.google_place_id # "p3"
  /\ \E r \in store : r.google_place_id = "p3" /\ r.id[1] = "goog-g1"

\* ------------------------------------------------------------------------
\* More properties of the table writers (under StoreSpec)
\* ------------------------------------------------------------------------
\* The insert of request p has just ended without storing its rows.
InsertFailed(p) ==
  /\ osm[p].pc = "insert"
  /\ osm'[p] # osm[p]
  /\ \A r \in store' : r.id[1] = OsmWriter(p) => r \in store

OsmIdsOf(rows, country) == {r.osm_id : r \in OsmRowsOf(rows, country)}
FetchedIds(p) == {osm[p].osmServices[i].osm_id : i \in 1..Len(osm[p].osmServices)}

\* Two refreshes of the requested country, the second begun while the first
\* was running, have both answered 200 after writing.
BothRefreshed ==
  \A p \in {"r1", "r2"} :
    /\ osm[p].pc = "done" /\ osm[p].status = 200
    /\ osm[p].country = ReqCountry
    /\ Len(osm[p].osmServices) > 0

\* C14: after two overlapping refreshes of one country, under every
\* interleaving of their deletes and inserts, the OSM rows of the country are
\* exactly the set one of the two inserted, never a mixture.
C14_LastWins ==
  BothRefreshed =>
    OsmIdsOf(store, ReqCountry) \in {FetchedIds("r1"), FetchedIds("r2")}

\* C14, reached: both refreshes succeeded and the country holds rows of both.
C14_Mixture ==
  /\ BothRefreshed
  /\ FetchedIds("r1") \cap FetchedIds("r2") = {}
  /\ \A p \in {"r1", "r2"} :
       \E r \in store : /\ r.id[1] = OsmWriter(p) /\ r.source = "OSM"
                        /\ r.country = ReqCountry /\ r.osm_id \in FetchedIds(p)
  /\ OsmIdsOf(store, ReqCountry) = FetchedIds("r1") \cup FetchedIds("r2")

\* ------------------------------------------------------------------------
\* FetchSpec: one call of retryFetch, attempt by attempt
\* ------------------------------------------------------------------------
MaxRetries == 5

Max(a, b) == IF a > b THEN a ELSE b

\* What one fetch(url, ...) can meet: a response with a status, or a
\* rejection (the request never got a response).
HttpStatuses == {200, 204, 404, 503}
FetchOutcomes ==
  {[kind |-> "response", status |-> s] : s \in HttpStatuses}
    \cup {[kind |-> "rejected", status |-> 0]}

\* response.ok
ResponseOk(o) == o.kind = "response" /\ o.status \in 200..299

NoError == [message |-> Null, status |-> 0]
NoResponse == [kind |-> "none", status |-> 0]

\* The value the catch block receives after a request that did not succeed:
\* new Error(`HTTP error! status: ${response.status}`), or what fetch threw.
ErrorOf(o) ==
  IF o.kind = "response" THEN [message |-> "HTTP error! status", status |-> o.status]
  ELSE [message |-> "fetch failed", status |-> 0]

\* The three copies of retryFetch: the client's checks its url and the
\* Supabase url inside the try block before it sends anything.
FetchImpls == {"client", "osm-lookup", "google-places"}
FetchConfigs(impl) ==
  IF impl = "client"
  THEN {"ok", "URL is undefined", "Supabase URL is not configured"}
  ELSE {"ok"}

\* Faulty variant of LastIteration: the loop never breaks out of its catch.
NeverLast(i, retries) == FALSE

\* if (i === retries - 1) break;
LastIteration(i, retries) == i = retries - 1

FetchStart(impl, config, retries) ==
  [fn |-> "retryFetch", impl |-> impl, config |-> config, retries |-> retries,
   i |-> 0, st |-> "loop", lastError |-> NoError, response |-> NoResponse,
   requests |-> <<>>, waits |-> 0, delays |-> <<>>]

\* One pass of the loop body with i < retries: the try block up to return
\* response, or the catch block up to the break (followed at once by
\* throw lastError) or up to the await of the backoff timer.
FetchAttempt(outcome) ==
  /\ call.fn = "retryFetch" /\ call.st = "loop" /\ call.i < call.retries
  /\ LET sent == call.config = "ok"
         caught == IF sent THEN ErrorOf(outcome)
                   ELSE [message |-> call.config, status |-> 0]
         requests == IF sent THEN Append(call.requests, outcome) ELSE call.requests
     IN  call' =
           IF sent /\ ResponseOk(outcome)
           THEN [call EXCEPT !.requests = requests, !.response = outcome,
                             !.st = "returned"]
           ELSE [call EXCEPT !.requests = requests, !.lastError = caught,
                             !.st = IF LastIteration(call.i, call.retries)
                                    THEN "thrown" ELSE "backoff"]
  /\ UNCHANGED <<store, nextId, faults, ops, env, searchVars, osm, goog, lastUpsert>>

\* retryFetch(url, options = {}, retries = 3, backoff = 1000)
BaseDelay == 1000
\* Math.min(..., 5000)
CapDelay == 5000
\* Math.random() * 1000, in whole milliseconds: 0 up to MaxJitter - 1.
MaxJitter == 1000
Jitters == {0, MaxJitter - 1}

\* The milliseconds slept after the failed attempt i.  Client:
\* Math.min(backoff * Math.pow(2, i) + jitter, 5000); fetchWithTimeout:
\* Math.min(1000 * Math.pow(2, i), 5000); osm-lookup and google-places:
\* Math.pow(2, i) * 1000.
BackoffDelay(impl, i, jitter) ==
  IF impl = "client" THEN Min(BaseDelay * 2^i + jitter, CapDelay)
  ELSE IF impl = "fetchWithTimeout" THEN Min(1000 * 2^i, CapDelay)
  ELSE 2^i * 1000

\* The backoff timer is set and fires; i++ and back to the loop test.
FetchBackoff(jitter) ==
  /\ call.fn = "retryFetch" /\ call.st = "backoff"
  /\ call' = [call EXCEPT !.waits = @ + 1, !.i = @ + 1, !.st = "loop",
                          !.delays = Append(@, BackoffDelay(call.impl, call.i, jitter))]
  /\ UNCHANGED <<store, nextId, faults, ops, env, searchVars, osm, goog, lastUpsert>>

\* The loop test fails: throw lastError.
FetchExhausted ==
  /\ call.fn = "retryFetch" /\ call.st = "loop" /\ ~(call.i < call.retries)
  /\ call' = [call EXCEPT !.st = "thrown"]
  /\ UNCHANGED <<store, nextId, faults, ops, env, searchVars, osm, goog, lastUpsert>>

FetchInit ==
  /\ store = {}
  /\ nextId = [w \in Writers |-> 0]
  /\ faults = 0
  /\ ops = 0
  /\ env = [dbDown |-> FALSE, osmFails |-> 0, googleFails |-> 0,
            overpass |-> <<>>, places |-> <<>>, malformed |-> FALSE]
  /\ pc = "idle"
  /\ searches = 0
  /\ internalRes = <<>>
  /\ task = [t \in Tasks |-> TaskIdle]
  /\ settled = <<>>
  /\ result = NoResult
  /\ prev = <<>>
  /\ osm = [p \in OsmProcs |-> OsmIdle]
  /\ goog = [p \in GoogProcs |-> GoogIdle]
  /\ lastUpsert = <<>>
  /\ call \in {FetchStart(impl, config, retries) :
                 impl \in FetchImpls, config \in FetchConfigs("client"),
                 retries \in 0..MaxRetries}
  /\ call.config \in FetchConfigs(call.impl)

FetchNext ==
  \/ \E outcome \in FetchOutcomes : FetchAttempt(outcome)
  \/ \E jitter \in Jitters : FetchBackoff(jitter)
  \/ FetchExhausted

FetchSpec == FetchInit /\ [][FetchNext]_vars

\* Every fetch settles and every timer fires, so a call that can take a
\* step takes it.
FetchLive == FetchSpec /\ WF_vars(FetchNext)

\* ------------------------------------------------------------------------
\* TimeoutSpec: the same calls, and fetchWithTimeout, against servers that
\* may never respond
\* ------------------------------------------------------------------------
Silent == [kind |-> "silent", status |-> 0]

\* The value the catch block receives when controller.abort() rejects the
\* pending fetch.
AbortError == [message |-> "The operation was aborted", status |-> 0]

\* fetch(url, ...) is sent to a server that never responds: the await does
\* not return by itself.
FetchSilent ==
  /\ call.fn = "retryFetch" /\ call.st = "loop" /\ call.i < call.retries
  /\ call.config = "ok"
  /\ call' = [call EXCEPT !.requests = Append(@, Silent), !.st = "pending"]
  /\ UNCHANGED <<store, nextId, faults, ops, env, searchVars, osm, goog, lastUpsert>>

\* setTimeout(() => controller.abort(), timeout) of fetchWithTimeout fires:
\* the fetch rejects and the catch block runs as for any failed attempt.
\* The copies of retryFetch set no such timer and pass no signal.
FetchAbort ==
  /\ call.fn = "retryFetch" /\ call.st = "pending"
  /\ call.impl = "fetchWithTimeout"
  /\ call' = [call EXCEPT !.lastError = AbortError,
                          !.st = IF LastIteration(call.i, call.retries)
                                 THEN "thrown" ELSE "backoff"]
  /\ UNCHANGED <<store, nextId, faults, ops, env, searchVars, osm, goog, lastUpsert>>

TimeoutInit ==
  /\ store = {}
  /\ nextId = [w \in Writers |-> 0]
  /\ faults = 0
  /\ ops = 0
  /\ env = [dbDown |-> FALSE, osmFails |-> 0, googleFails |-> 0,
            overpass |-> <<>>, places |-> <<>>, malformed |-> FALSE]
  /\ pc = "idle"
  /\ searches = 0
  /\ internalRes = <<>>
  /\ task = [t \in Tasks |-> TaskIdle]
  /\ settled = <<>>
  /\ result = NoResult
  /\ prev = <<>>
  /\ osm = [p \in OsmProcs |-> OsmIdle]
  /\ goog = [p \in GoogProcs |-> GoogIdle]
  /\ lastUpsert = <<>>
  /\ call \in {FetchStart(impl, "ok", retries) :
                 impl \in FetchImpls \cup {"fetchWithTimeout"},
                 retries \in 0..MaxRetries}

TimeoutNext ==
  \/ \E outcome \in FetchOutcomes : FetchAttempt(outcome)
  \/ \E jitter \in Jitters : FetchBackoff(jitter)
  \/ FetchExhausted
  \/ FetchSilent
  \/ FetchAbort

\* Every step that can be taken is taken; nothing makes a server respond.
TimeoutSpec == TimeoutInit /\ [][TimeoutNext]_vars /\ WF_vars(TimeoutNext)

\* The rows of source OSM.
OsmSourced(rows) == {r \in rows : r.source = "OSM"}

\* C30: a request of the OSM refresh whose Overpass fetch failed, or that
\* has no country, ends at once with status 500 and leaves the store as it
\* was; a delete is pending only for a request that fetched services for a
\* country, OSM rows leave the store only in the delete of such a request,
\* and OSM rows enter the store only in the insert that follows it.
C30_DeleteOnlyAfterFetch ==
  [][/\ \A p \in OsmProcs, country \in Countries \cup {Null},
           outcome \in {Failed} \cup {Answer(a) : a \in OverpassAnswers} :
          (OsmRequest(p, country, outcome) /\ (country = Null \/ ~outcome.ok)) =>
            /\ osm'[p].pc = "done" /\ osm'[p].status = 500
            /\ OsmSourced(store') = OsmSourced(store)
            /\ nextId'[OsmWriter(p)] = nextId[OsmWriter(p)]
            /\ osm' # osm => (store' = store /\ nextId' = nextId)
     /\ \A p \in OsmProcs :
          osm'[p].pc \in {"delete", "insert"} =>
            (osm'[p].country # Null /\ Len(osm'[p].osmServices) > 0)
     /\ \A r \in OsmSourced(store) \ store' :
          \E p \in OsmProcs :
            /\ osm[p].pc = "delete" /\ osm'[p].pc = "insert"
            /\ osm[p].country = r.country /\ Len(osm[p].osmServices) > 0
     /\ \A r \in OsmSourced(store') \ store :
          \E p \in OsmProcs :
            /\ osm[p].pc = "insert" /\ osm'[p].pc = "done"
            /\ osm[p].country = r.country /\ r.id[1] = OsmWriter(p)
    ]_vars

\* C30, reached: a refresh of the requested country ended with status 500
\* before any store write, a refresh without country was refused, and the
\* OSM rows the table held at the start are all there.
C30_Witness ==
  /\ osm["r1"].pc = "done" /\ osm["r1"].status = 500
  /\ osm["r1"].osmServices = <<>> /\ osm["r1"].country = ReqCountry
  /\ osm["r2"].pc = "done" /\ osm["r2"].status = 500
  /\ osm["r2"].country = Null
  /\ OsmSourced(store) = OsmSourced(OtherRows(1))

\* ------------------------------------------------------------------------
\* Properties of retryFetch (under FetchLive)
\* ------------------------------------------------------------------------
FetchEnded == call.st \in {"returned", "thrown"}

MaxResults == 2

\* typeMapping[type] || ['point_of_interest']
typeMapping(type) ==
  IF type = "clinic" THEN <<"hospital", "doctor", "health">>
  ELSE IF type = "shelter" THEN <<"lodging", "local_government_office">>
  ELSE IF type = "legal" THEN <<"lawyer">>
  ELSE IF type = "food" THEN <<"food_bank", "meal_delivery">>
  ELSE IF type = "education" THEN <<"school", "university">>
  ELSE <<"point_of_interest">>

NearbyIds == {"p1", "p2"}

\* What the nearby search of one place type can answer: status OK with the
\* place ids of its results, ZERO_RESULTS, another status, or no answer at
\* all (retryFetch or response.json() threw).
NearbyAnswers ==
  {[status |-> "OK", results |-> r] : r \in SeqsUpTo(NearbyIds, MaxResults)}
    \cup {[status |-> st, results |-> <<>>] :
            st \in {"ZERO_RESULTS", "OVER_QUERY_LIMIT", "thrown"}}

\* The place objects of the k-th response; from tells the objects of one
\* place_id apart: the place type and the position they came at.
PlacesOf(data, k) ==
  [j \in 1..Len(data.results) |-> [place_id |-> data.results[j], from |-> <<k, j>>]]

\* data.results.filter(place => { if (seenPlaceIds.has(place.place_id))
\* return false; seenPlaceIds.add(place.place_id); return true; })
RECURSIVE uniquePlaces(_, _)
uniquePlaces(places, seenPlaceIds) ==
  IF places = <<>> THEN <<>>
  ELSE IF Head(places).place_id \in seenPlaceIds
       THEN uniquePlaces(Tail(places), seenPlaceIds)
       ELSE <<Head(places)>>
              \o uniquePlaces(Tail(places), seenPlaceIds \cup {Head(places).place_id})

\* Faulty variant of SeenAfter: a set of seen ids made anew for each place type.
SeenPerType(seenPlaceIds, unique) == {}

\* seenPlaceIds after the filter of one response: one set for the whole loop.
SeenAfter(seenPlaceIds, unique) ==
  seenPlaceIds \cup {unique[j].place_id : j \in 1..Len(unique)}

\* { ...place, ...details, country } with details of getPlaceDetails, null
\* when the details request failed; every promise is fulfilled, in order.
\* nogeo are the places that have no geometry in either object.
detailedResults(unique, detailed, nogeo, country) ==
  [j \in 1..Len(unique) |->
     [place_id |-> unique[j].place_id, from |-> unique[j].from, name |-> "a",
      details |-> unique[j].place_id \in detailed,
      geometry |-> unique[j].place_id \notin nogeo, country |-> country]]

\* Faulty variant of NearbyLoop: a place type whose search fails or answers
\* an error status ends the loop.
RECURSIVE NearbyLoopStops(_, _, _, _, _, _)
NearbyLoopStops(answers, k, results, seenPlaceIds, detailed, nogeo) ==
  IF k > Len(answers) THEN results
  ELSE IF answers[k].status \notin {"OK", "ZERO_RESULTS"} THEN results
  ELSE LET unique == IF answers[k].status = "OK"
                     THEN uniquePlaces(PlacesOf(answers[k], k), seenPlaceIds)
                     ELSE <<>>
       IN  NearbyLoopStops(answers, k + 1,
                           results \o detailedResults(unique, detailed, nogeo, ReqCountry),
                           SeenAfter(seenPlaceIds, unique), detailed, nogeo)

\* for (const placeType of placeTypes) {...}, from the k-th place type on.
RECURSIVE NearbyLoop(_, _, _, _, _, _)
NearbyLoop(answers, k, results, seenPlaceIds, detailed, nogeo) ==
  IF k > Len(answers) THEN results
  ELSE LET unique == IF answers[k].status = "OK"
                     THEN uniquePlaces(PlacesOf(answers[k], k), seenPlaceIds)
                     ELSE <<>>
       IN  NearbyLoop(answers, k + 1,
                      results \o detailedResults(unique, detailed, nogeo, ReqCountry),
                      SeenAfter(seenPlaceIds, unique), detailed, nogeo)

\* Faulty variant of DetailsFor: the details of every place of the response
\* are requested, and the duplicates are removed afterwards.
DetailsForAll(places, unique) == [j \in 1..Len(places) |-> places[j].place_id]

\* uniquePlaces.map(async place => ... getPlaceDetails(place.place_id) ...):
\* the place ids getPlaceDetails is called with for one response.
DetailsFor(places, unique) == [j \in 1..Len(unique) |-> unique[j].place_id]

\* The calls of getPlaceDetails of the whole loop, in order.
RECURSIVE DetailsCalls(_, _, _, _)
DetailsCalls(answers, k, calls, seenPlaceIds) ==
  IF k > Len(answers) THEN calls
  ELSE LET places == IF answers[k].status = "OK" THEN PlacesOf(answers[k], k) ELSE <<>>
           unique == uniquePlaces(places, seenPlaceIds)
       IN  DetailsCalls(answers, k + 1, calls \o DetailsFor(places, unique),
                        SeenAfter(seenPlaceIds, unique))

\* searchNearbyPlaces(location, type): it throws when the country of the
\* location cannot be resolved, before any nearby search.
searchNearbyPlaces(input) ==
  IF ~input.geocoded THEN Failed
  ELSE Answer(NearbyLoop(input.answers, 1, <<>>, {}, input.detailed, input.nogeo))

\* places.map(place => ({ ..., latitude: place.geometry.location.lat, ... }))
\* of the handler, on what searchNearbyPlaces returned: reading
\* place.geometry.location of a place without geometry throws a TypeError,
\* which the catch of the handler answers with status 500.
PlacesResponse(found, type) ==
  IF ~found.ok THEN [status |-> 500, services |-> <<>>]
  ELSE IF \E i \in 1..Len(found.data) : ~found.data[i].geometry
  THEN [status |-> 500, services |-> <<>>]
  ELSE [status |-> 200, services |-> formatPlaces(found.data, type)]

NearbyInputs ==
  { [type |-> type, answers |-> a, detailed |-> d, nogeo |-> n, geocoded |-> g] :
      type \in {"clinic", "shelter", "legal"},
      a \in SeqsUpTo(NearbyAnswers, 3), d \in SUBSET NearbyIds,
      n \in SUBSET NearbyIds, g \in BOOLEAN }

\* ['clinic', 'shelter', 'legal', 'food', 'education'].includes(intent)
ServiceIntents == {"clinic", "shelter", "legal", "food", "education"}

\* if (x): null and the empty string are falsy.
Truthy(x) == x \notin {Null, ""}

\* What the chat function answers: no usable answer (retryFetch or
\* response.json() threw), or a body with its error and intent fields.
ChatAnswers ==
  {Failed} \cup {Answer([error |-> e, intent |-> i]) :
                   e \in {Null, "rate limited"}, i \in {"clinic", "shelter", "greeting"}}

\* What searchServices returns: the object of its catch block, or the
\* buckets of the lists it read.
SearchResults ==
  {ErrorResult("Database error")}
    \cup {Aggregate(i, o, g) :
            i \in {<<>>, <<"s1">>}, o \in {<<>>, <<"o1">>},
            g \in {<<>>, <<"g1">>, <<"g1", "g2", "g3", "g4", "g5", "g6">>}}

Reply(message, listed, intent, error) ==
  [thrown |-> FALSE, message |-> message, listed |-> listed, intent |-> intent,
   error |-> error]

Thrown(message) ==
  [thrown |-> TRUE, message |-> Null, listed |-> 0, intent |-> Null, error |-> message]

\* Faulty variant of CatchReply: the catch block throws the error again.
CatchRethrows(error) == Thrown(error)

\* catch (error) { return { message: `I apologize, ...`, intent: 'error',
\* error: error.message } }
CatchReply(error) == Reply("I apologize", 0, "error", error)

\* The try block of processMessage: Thrown(m) where it throws, else the
\* object it returns.  A failed geolocation is caught inside and only
\* leaves userLocation undefined.
ProcessBody(input) ==
  IF input.config # "ok" THEN Thrown(input.config)
  ELSE IF ~input.chat.ok THEN Thrown("fetch failed")
  ELSE IF Truthy(input.chat.data.error) THEN Thrown("Chat function error")
  ELSE IF input.chat.data.intent \in ServiceIntents
  THEN IF Truthy(input.search.error) THEN Thrown(input.search.error)
       ELSE IF AllEmpty(input.search)
            THEN Reply("I couldn't find any", 0, input.chat.data.intent, Null)
            ELSE Reply("Here are the top 5",
                       Len(input.search.internal) + Len(input.search.osm)
                         + Len(input.search.google),
                       input.chat.data.intent, Null)
  ELSE Reply("I can help you find", 0, "general", Null)

processMessage(input) ==
  LET body == ProcessBody(input)
  IN  IF body.thrown THEN CatchReply(body.error) ELSE body

ProcessInputs ==
  { [located |-> l, config |-> c, chat |-> ch, search |-> sr] :
      l \in BOOLEAN,
      c \in {"ok", "Supabase URL is not configured",
               "Supabase anonymous key is not configured"},
      ch \in ChatAnswers, sr \in SearchResults }

MaxLangs == 3

\* The entries a languages array is tried with: NULL, the empty string,
\* names and codes in several spellings, and a code the table does not know.
LangEntries == {Null, "", "English", "ENGLISH", "en", "EN", "arabic", "xx"}

\* LOWER(lang), on the entries above and on what it returns.
Lower(lang) ==
  IF lang \in {"English", "ENGLISH"} THEN "english"
  ELSE IF lang = "EN" THEN "en"
  ELSE lang

\* The WHEN branches of normalize_language_code.
LanguageCodes ==
  [english |-> "en", spanish |-> "es", french |-> "fr", arabic |-> "ar",
   ukrainian |-> "uk", russian |-> "ru", german |-> "de", chinese |-> "zh",
   persian |-> "fa", turkish |-> "tr", swahili |-> "sw", hindi |-> "hi",
   urdu |-> "ur", pashto |-> "ps", somali |-> "so"]

\* Faulty variant of normalize_language_code: every entry is kept as it is.
KeepLanguage(lang) == lang

\* CASE LOWER(lang) WHEN 'english' THEN 'en' ... ELSE LOWER(lang) END
normalize_language_code(lang) ==
  IF Lower(lang) \in DOMAIN LanguageCodes THEN LanguageCodes[Lower(lang)]
  ELSE Lower(lang)

\* SELECT DISTINCT normalize_language_code(lang) FROM unnest(langs) AS lang
\* WHERE lang IS NOT NULL AND lang != '': the rows of the query, as a set.
\* unnest of a NULL array has no rows.
NormalizedRows(langs) ==
  {normalize_language_code(langs[i]) :
     i \in {j \in 1..Len(langs) : langs[j] # Null /\ langs[j] # ""}}

\* ARRAY(SELECT DISTINCT ...): the rows in an order the query does not fix.
normalize_languages(langs) == Orderings(NormalizedRows(langs))

CallInit ==
  /\ store = {}
  /\ nextId = [w \in Writers |-> 0]
  /\ faults = 0
  /\ ops = 0
  /\ env = [dbDown |-> FALSE, osmFails |-> 0, googleFails |-> 0,
            overpass |-> <<>>, places |-> <<>>, malformed |-> FALSE]
  /\ pc = "idle"
  /\ searches = 0
  /\ internalRes = <<>>
  /\ task = [t \in Tasks |-> TaskIdle]
  /\ settled = <<>>
  /\ result = NoResult
  /\ prev = <<>>
  /\ osm = [p \in OsmProcs |-> OsmIdle]
  /\ goog = [p \in GoogProcs |-> GoogIdle]
  /\ lastUpsert = <<>>
  /\ \/ \E input \in NearbyInputs :
          /\ Len(input.answers) = Len(typeMapping(input.type))
          /\ input.geocoded \/ (input.detailed = {} /\ input.nogeo = {})
          /\ call = [fn |-> "searchNearbyPlaces", st |-> "called", input |-> input,
                     output |-> Failed, detailsCalls |-> <<>>,
                     response |-> [status |-> 0, services |-> <<>>]]
     \/ \E op \in {"INSERT", "UPDATE"}, langs \in SeqsUpTo(LangEntries, MaxLangs) :
          call = [fn |-> "normalize_languages_trigger", st |-> "called",
                  input |-> [op |-> op, languages |-> langs], output |-> <<>>]
     \/ \E input \in ProcessInputs :
          call = [fn |-> "processMessage", st |-> "called", input |-> input,
                  output |-> Thrown(Null)]

CallNearby ==
  /\ call.fn = "searchNearbyPlaces" /\ call.st = "called"
  /\ call' = [call EXCEPT !.st = "returned", !.output = searchNearbyPlaces(call.input),
                          !.detailsCalls = IF call.input.geocoded
                                           THEN DetailsCalls(call.input.answers, 1, <<>>, {})
                                           ELSE <<>>,
                          !.response = PlacesResponse(searchNearbyPlaces(call.input),
                                                      call.input.type)]
  /\ UNCHANGED <<store, nextId, faults, ops, env, searchVars, osm, goog, lastUpsert>>

CallProcessMessage ==
  /\ call.fn = "processMessage" /\ call.st = "called"
  /\ call' = [call EXCEPT !.st = "returned", !.output = processMessage(call.input)]
  /\ UNCHANGED <<store, nextId, faults, ops, env, searchVars, osm, goog, lastUpsert>>

\* normalize_languages_on_change, BEFORE INSERT OR UPDATE ... FOR EACH ROW:
\* NEW.languages = normalize_languages(NEW.languages).
CallNormalizeTrigger ==
  /\ call.fn = "normalize_languages_trigger" /\ call.st = "called"
  /\ \E new \in normalize_languages(call.input.languages) :
       call' = [call EXCEPT !.st = "returned", !.output = new]
  /\ UNCHANGED <<store, nextId, faults, ops, env, searchVars, osm, goog, lastUpsert>>

CallNext ==
  \/ CallNearby
  \/ CallNormalizeTrigger
  \/ CallProcessMessage

CallSpec == CallInit /\ [][CallNext]_vars

\* ------------------------------------------------------------------------
\* Properties of searchNearbyPlaces (under CallSpec)
\* ------------------------------------------------------------------------
NearbyReturned ==
  call.fn = "searchNearbyPlaces" /\ call.st = "returned" /\ call.output.ok

\* (k, j) comes before (k2, j2): place type order, then response order.
Before(a, b) == a[1] < b[1] \/ (a[1] = b[1] /\ a[2] < b[2])

\* The place ids in the OK answers, with where each one occurs.
Occurrences(answers, id) ==
  { <<k, j>> \in (1..Len(answers)) \X (1..MaxResults) :
      /\ answers[k].status = "OK" /\ j <= Len(answers[k].results)
      /\ answers[k].results[j] = id }

\* C17: over all place types of one search, each place_id is at most once
\* in the output of searchNearbyPlaces; the item kept for a place_id is the
\* first one seen, in place type order and then response order, and the
\* output lists the kept items in that order; the same filter applied to
\* the output changes nothing.
C17_DedupFirstSeen ==
  NearbyReturned =>
    LET out == call.output.data
        answers == call.input.answers
    IN  /\ \A i, j \in 1..Len(out) : out[i].place_id = out[j].place_id => i = j
        /\ \A i \in 1..Len(out) :
             /\ out[i].from \in Occurrences(answers, out[i].place_id)
             /\ \A o \in Occurrences(answers, out[i].place_id) : ~Before(o, out[i].from)
        /\ \A id \in NearbyIds :
             Occurrences(answers, id) # {} => \E i \in 1..Len(out) : out[i].place_id = id
        /\ \A i, j \in 1..Len(out) : i < j => Before(out[i].from, out[j].from)
        /\ uniquePlaces(out, {}) = out

\* C17, reached: p1 answered twice for the first place type and again for
\* the third, p2 for the second and the third; the output has each once.
C17_Witness ==
  /\ NearbyReturned
  /\ Len(call.input.answers) = 3
  /\ call.input.answers[1].results = <<"p1", "p1">>
  /\ call.input.answers[2].results = <<"p2">>
  /\ call.input.answers[3].results = <<"p2", "p1">>
  /\ Len(call.output.data) = 2

\* ------------------------------------------------------------------------
\* Properties of processMessage (under CallSpec)
\* ------------------------------------------------------------------------
\* processMessage returned, and it had called searchServices.
SearchedAndReturned ==
  /\ call.fn = "processMessage" /\ call.st = "returned"
  /\ call.input.config = "ok" /\ call.input.chat.ok
  /\ call.input.chat.data.error = Null
  /\ call.input.chat.data.intent \in ServiceIntents

\* C19: processMessage never throws; when searchServices reports an error
\* it returns the apology with intent 'error' and that error, and when
\* searchServices succeeds with every bucket empty it returns the
\* "couldn't find any" message with the intent and error = null.
C19_NeverThrows ==
  /\ (call.fn = "processMessage" /\ call.st = "returned") => ~call.output.thrown
  /\ (SearchedAndReturned /\ call.input.search.error # Null) =>
       /\ call.output.intent = "error"
       /\ call.output.message = "I apologize"
       /\ call.output.error = call.input.search.error
  /\ (SearchedAndReturned /\ call.input.search.error = Null
        /\ AllEmpty(call.input.search)) =>
       /\ call.output.message = "I couldn't find any"
       /\ call.output.intent = call.input.chat.data.intent
       /\ call.output.error = Null

\* C19, reached: a search that succeeded with nothing in any bucket.
C19_Witness ==
  /\ SearchedAndReturned
  /\ call.input.search = Aggregate(<<>>, <<>>, <<>>)
  /\ call.output.message = "I couldn't find any"
  /\ call.output.error = Null

\* ------------------------------------------------------------------------
\* More properties of the table (under AdmitSpec)
\* ------------------------------------------------------------------------
CoPresent(r) ==
  \/ r.source = "manual" /\ r.osm_id = NullId /\ r.google_place_id = Null
  \/ r.source = "OSM" /\ r.osm_id # NullId
  \/ r.source = "GooglePlaces" /\ r.google_place_id # Null

\* C18: every row the services table holds is a manual row with both
\* external ids null, an OSM row with an osm_id, or a GooglePlaces row with
\* a google_place_id; a manual row with an external id and a row of any
\* other source are never accepted.
C18_CoPresence == \A r \in store : CoPresent(r)

\* C18, what the program does instead: the table accepted a manual row
\* that carries a google_place_id.
C18_ManualRowWithExternalId ==
  \E r \in store :
    /\ r.id[1] = "api" /\ r.source = "manual"
    /\ r.google_place_id = "p2" /\ r.osm_id = NullId

C22_SilentAttemptTimesOut ==
  /\ (call.st = "pending") ~> (call.st \in {"backoff", "thrown"})
  /\ <>(call.st \in {"returned", "thrown"})

\* C22, what the program does instead: the client's retryFetch has sent its
\* first request to a server that never responds and awaits it for ever.
C22_AwaitsForEver ==
  /\ call.fn = "retryFetch" /\ call.impl = "client" /\ call.retries = 3
  /\ call.st = "pending" /\ call.requests = <<Silent>>
  /\ ~ENABLED TimeoutNext

\* ------------------------------------------------------------------------
\* More properties of searchNearbyPlaces (under CallSpec)
\* ------------------------------------------------------------------------
\* C23: within one call of searchNearbyPlaces, getPlaceDetails is called at
\* most once for each place_id, however many responses contain it; it is
\* called for exactly the places of the output.
C23_DetailsOncePerPlace ==
  NearbyReturned =>
    /\ NoDuplicate(call.detailsCalls)
    /\ call.detailsCalls =
         [i \in 1..Len(call.output.data) |-> call.output.data[i].place_id]

\* C23, reached: p1 is in the responses of all three place types, twice in
\* the first, and its details were requested once.
C23_Witness ==
  /\ NearbyReturned
  /\ Len(call.input.answers) = 3
  /\ call.input.answers[1].results = <<"p1", "p1">>
  /\ call.input.answers[2].results = <<"p1", "p2">>
  /\ call.input.answers[3].results = <<"p2", "p1">>
  /\ call.detailsCalls = <<"p1", "p2">>

\* The places of the output with coordinates.
WithGeometry(places) == SelectSeq(places, LAMBDA x : x.geometry)

\* C24: a place whose details lookup fails is kept in the output with its
\* summary fields, and a place without coordinates is dropped on its own:
\* the request still succeeds and stores every other place of the search.
C24_EnrichmentFailureIsLocal ==
  NearbyReturned =>
    /\ \A id \in NearbyIds :
         (Occurrences(call.input.answers, id) # {} /\ id \notin call.input.detailed) =>
           \E i \in 1..Len(call.output.data) :
             call.output.data[i].place_id = id /\ ~call.output.data[i].details
    /\ call.response.status = 200
    /\ call.response.services =
         formatPlaces(WithGeometry(call.output.data), call.input.type)

\* C24, what the program does instead: the search found p1, with
\* coordinates, and p2, without; the request answers 500 and returns no
\* place at all.
C24_OnePlaceFailsTheRequest ==
  /\ NearbyReturned
  /\ call.input.nogeo = {"p2"}
  /\ Len(call.output.data) = 2
  /\ \E i \in 1..2 : call.output.data[i].place_id = "p1" /\ call.output.data[i].geometry
  /\ call.response.status = 500 /\ call.response.services = <<>>

\* The answers with every place type that did not answer OK taken as one
\* that found nothing.
OkOnly(answers) ==
  [k \in 1..Len(answers) |->
     IF answers[k].status = "OK" THEN answers[k] ELSE [status |-> "OK", results |-> <<>>]]

\* C25: a place type whose search answers ZERO_RESULTS or an error status,
\* or fails after its retries, contributes nothing and does not stop the
\* searches of the place types after it: the output holds exactly the
\* places of the answers that were OK, each place from such an answer.
C25_CategoryIsolation ==
  NearbyReturned =>
    LET out == call.output.data
        answers == call.input.answers
    IN  /\ {out[i].place_id : i \in 1..Len(out)}
             = {id \in NearbyIds : Occurrences(answers, id) # {}}
        /\ \A i \in 1..Len(out) : answers[out[i].from[1]].status = "OK"
        /\ call.output =
             searchNearbyPlaces([call.input EXCEPT !.answers = OkOnly(answers)])

\* C25, reached: the first place type failed after its retries, the second
\* answered an error status, and the places of the third are the output.
C25_Witness ==
  /\ NearbyReturned
  /\ Len(call.input.answers) = 3
  /\ call.input.answers[1].status = "thrown"
  /\ call.input.answers[2].status = "OVER_QUERY_LIMIT"
  /\ call.input.answers[3].results = <<"p1", "p2">>
  /\ Len(call.output.data) = 2 /\ call.output.data[1].from = <<3, 1>>

\* ------------------------------------------------------------------------
\* Properties of a malformed provider response (under ShapeSpec)
\* ------------------------------------------------------------------------
\* C26: a response of Overpass without an elements array is not retried:
\* the search issues the provider request once, and the OSM bucket of the
\* result is empty without an error.
C26_MalformedNotRetried ==
  (pc = "done" /\ env.malformed /\ env.osmFails = 0) =>
    /\ task["osm"].i = 0
    /\ Len(result.osm) = 0 /\ result.error = Null

\* C26, what the program does instead: the lookup was called Retries times,
\* each call sending the Overpass request again, before the OSM bucket was
\* left empty.
C26_RequestSentAgain ==
  /\ pc = "done" /\ env.malformed /\ env.osmFails = 0
  /\ task["osm"].i = Retries - 1 /\ task["osm"].failed
  /\ osm["c"].pc = "done" /\ osm["c"].status = 500
  /\ Len(result.osm) = 0 /\ result.error = Null

\* ------------------------------------------------------------------------
\* Properties of the languages trigger (under CallSpec)
\* ------------------------------------------------------------------------
LanguagesStored == call.fn = "normalize_languages_trigger" /\ call.st = "returned"

\* C27: after an insert or an update of a row, its languages array has no
\* duplicate, no null and no empty entry, and no full language name of the
\* table in any spelling: each was replaced by its lower-case code;
\* normalizing the stored array again gives the same set.
C27_LanguagesNormalized ==
  LanguagesStored =>
    LET out == call.output
    IN  /\ NoDuplicate(out)
        /\ \A i \in 1..Len(out) :
             /\ out[i] # Null /\ out[i] # ""
             /\ Lower(out[i]) \notin DOMAIN LanguageCodes
             /\ Lower(out[i]) = out[i]
        /\ \A i \in 1..Len(call.input.languages) :
             LET lang == call.input.languages[i]
             IN  (lang # Null /\ lang # "") =>
                   IF Lower(lang) \in DOMAIN LanguageCodes
                   THEN LanguageCodes[Lower(lang)] \in Range(out)
                   ELSE Lower(lang) \in Range(out)
        /\ \A again \in normalize_languages(out) : Range(again) = Range(out)

\* C27, reached: an update with a name, the same language as an upper-case
\* code, and a null entry stored one code.
C27_Witness ==
  /\ LanguagesStored /\ call.input.op = "UPDATE"
  /\ call.input.languages = <<"English", "EN", Null>>
  /\ call.output = <<"en">>

====
